---- MODULE Spec2Model ----
(***************************************************************************)
(* Model of the development supervisor src/dev_startup.sh (lines 46-207):  *)
(* the startup sequence, the background dependency watcher                 *)
(* (watch_dependencies), the main run-loop that keeps `bun --hot index.ts` *)
(* alive, and the cleanup trap.  The script runs under `set -euo pipefail`,*)
(* so the exit status of every simple command is part of the model.        *)
(*                                                                         *)
(* Environment: an external actor (git sync) creates, rewrites and removes *)
(* the descriptor files; the server process may exit on its own or be      *)
(* killed; INT/TERM may be delivered to the supervisor shell.  A signal    *)
(* sent with kill/pkill is asynchronous: the target is "terminating" until *)
(* it has actually exited.                                                 *)
(***************************************************************************)
EXTENDS Integers, Sequences, FiniteSets, TLC

\* ---------------------------------------------------------------- bounds
MaxContent == 2        \* distinct contents a descriptor file can have
MaxFileChanges == 1    \* external updates of the descriptor files
MaxSignals == 1        \* INT/TERM signals delivered to the supervisor

\* ------------------------------------------------------ program constants
MaxPolls == 30         \* for i in {1..30}

WATCH_FILES == <<"package.json", "bun.lockb">>

Absent == 0
Contents == 1..MaxContent
FileNames == {WATCH_FILES[k] : k \in 1..Len(WATCH_FILES)}
FileStates == [FileNames -> {Absent} \cup Contents]

\* ---------------------------------------------------------------- values
\* Strings that end up in .deps_hash or in the shell variables $current and
\* $previous.  A digest is identified with the byte stream that was hashed
\* (sha256 is taken to be collision free).
Str(s) == [lit |-> s, of |-> << >>]
EmptyStr == Str("")
Zero == Str("0")
NoFile == Str("<no file>")
sha256sum(lines) == [lit |-> "sha256", of |-> lines]
IsDigest(v) == v.lit = "sha256"

\* sha256sum "$f" prints one line "<digest of the content>  <name>"
Line(f, fs) == <<f, fs[f]>>

RECURSIVE HashLines(_, _)
HashLines(k, fs) ==
  IF k > Len(WATCH_FILES) THEN << >>
  ELSE (IF fs[WATCH_FILES[k]] # Absent THEN <<Line(WATCH_FILES[k], fs)>> ELSE << >>)
       \o HashLines(k + 1, fs)

\* hash_files: output and return status.  The status of the function is the
\* status of the last `[ -f "$f" ] && sha256sum "$f"` list, i.e. 1 when the
\* last file of WATCH_FILES is missing.
hash_files(fs) ==
  [out |-> HashLines(1, fs),
   rc  |-> IF fs[WATCH_FILES[Len(WATCH_FILES)]] # Absent THEN 0 ELSE 1]

\* hash_files | sha256sum | awk '{print $1}'   under pipefail
HashPipeline(fs) ==
  [out |-> sha256sum(hash_files(fs).out), rc |-> hash_files(fs).rc]

\* test -n "$s"
NonEmpty(v) == v # EmptyStr

\* cat "$HASH_FILE_PATH" 2>/dev/null || echo ""
ReadStore(st) == IF st = NoFile THEN EmptyStr ELSE st

VARIABLES
  files,          \* content of each descriptor file (Absent = 0)
  HASH_FILE,      \* content of .deps_hash
  fileChanges,    \* external file changes so far
  changed,        \* a descriptor file changed after line 121 recorded the fingerprint
  mainPc,         \* position of the supervisor shell
  i,              \* loop variable of the startup wait
  exitCode,       \* exit status of the supervisor shell (-1 while running)
  sigPending,     \* a trapped signal has arrived and its handler has not run yet
  sigCount,       \* signals delivered so far
  BUN_PID,        \* "unset", "cur" (the latest server) or "old" (an earlier one)
  cur,            \* the server spawned last: none, running, terminating, exited
  bunStatus,      \* exit status of that server (-1 while it has not exited)
  lingering,      \* servers of earlier iterations that are still alive
  watcherPc,      \* position of the background watcher
  current,        \* $current
  startupInstall, \* startup `bun install`, until the watcher is started: none, running, ok, failed
  tickInstall     \* `bun install` of the tick in progress: none, running, ok, failed

vars == <<files, HASH_FILE, fileChanges, changed, mainPc, i, exitCode,
          sigPending, sigCount, BUN_PID, cur, bunStatus, lingering, watcherPc,
          current, startupInstall, tickInstall>>

fileVars == <<files, fileChanges, changed>>
mainVars == <<mainPc, i, exitCode>>
sigVars == <<sigPending, sigCount>>
bunVars == <<BUN_PID, cur, bunStatus, lingering>>
watchVars == <<watcherPc, current>>
instVars == <<startupInstall, tickInstall>>

LoopPcs == {"spawn198", "assign199", "wait203", "sleep206"}
StartupPcs == {"poll100", "check109", "install116", "installing116",
               "touch119", "hash121", "watch183", "trap193"}
WatcherLive == {"w_init147", "w_sleep151", "w_install169", "w_installing",
                "w_write170", "w_kill173"}
WatcherDown == {"w_none", "w_exited", "w_killed"}

TrapInstalled == mainPc \in LoopPcs
Recorded == mainPc = "watch183" \/ watcherPc # "w_none"
Alive(s) == s \in {"running", "terminating"}
AliveServers == (IF Alive(cur) THEN 1 ELSE 0) + lingering

\* Each descriptor file that exists when the script starts holds its first
\* version; later versions come from ChangeFile and from the installer.
Init ==
  /\ files \in [FileNames -> {Absent, 1}]
  /\ HASH_FILE = NoFile
  /\ fileChanges = 0
  /\ changed = FALSE
  /\ mainPc = "poll100"
  /\ i = 1
  /\ exitCode = -1
  /\ sigPending = FALSE
  /\ sigCount = 0
  /\ BUN_PID = "unset"
  /\ cur = "none"
  /\ bunStatus = -1
  /\ lingering = 0
  /\ watcherPc = "w_none"
  /\ current = EmptyStr
  /\ startupInstall = "none"
  /\ tickInstall = "none"

\* ------------------------------------------------------------ environment
\* git sync (or anyone else) updates the working tree: descriptor files are
\* created, rewritten or removed
ChangeFile ==
  /\ fileChanges < MaxFileChanges
  /\ files' \in FileStates \ {files}
  /\ fileChanges' = fileChanges + 1
  /\ changed' = (changed \/ Recorded)
  /\ UNCHANGED <<HASH_FILE, mainVars, sigVars, bunVars, watchVars, instVars>>

\* the statuses a server can end with on its own (0: normal exit, 1: crash)
ExitStatuses == {0, 1}

\* the running server exits on its own
ServerExits ==
  /\ cur = "running"
  /\ cur' = "exited"
  /\ bunStatus' \in ExitStatuses
  /\ UNCHANGED <<fileVars, HASH_FILE, mainVars, sigVars, BUN_PID, lingering,
                 watchVars, instVars>>

\* a server that was sent SIGTERM exits
ServerTerminates ==
  /\ cur = "terminating"
  /\ cur' = "exited"
  /\ bunStatus' = 128 + 15
  /\ UNCHANGED <<fileVars, HASH_FILE, mainVars, sigVars, BUN_PID, lingering,
                 watchVars, instVars>>

\* a server of an earlier iteration that was sent SIGTERM exits
LingeringTerminates ==
  /\ lingering > 0
  /\ lingering' = lingering - 1
  /\ UNCHANGED <<fileVars, HASH_FILE, mainVars, sigVars, BUN_PID, cur,
                 bunStatus, watchVars, instVars>>

\* kill "$PID" / pkill: SIGTERM to a server
Term(s) == IF s = "running" THEN "terminating" ELSE s

\* INT or TERM is delivered to the supervisor shell.  Before line 193 the
\* default disposition ends the shell; afterwards the trap is pending until
\* the shell is between two commands (or inside the wait builtin).
DeliverSignal ==
  /\ sigCount < MaxSignals
  /\ mainPc # "exited"
  /\ sigCount' = sigCount + 1
  /\ IF TrapInstalled
       THEN /\ sigPending' = TRUE
            /\ UNCHANGED mainVars
       ELSE /\ mainPc' = "exited"
            /\ exitCode' = 128 + 15
            /\ UNCHANGED <<i, sigPending>>
  /\ UNCHANGED <<fileVars, HASH_FILE, bunVars, watchVars, instVars>>

\* ---------------------------------------------------------------- startup
\* lines 100-107: one poll of the wait for package.json, with its sleep
Poll ==
  /\ mainPc = "poll100"
  /\ IF files["package.json"] # Absent
       THEN mainPc' = "check109" /\ i' = i
       ELSE IF i < MaxPolls
              THEN mainPc' = "poll100" /\ i' = i + 1
              ELSE mainPc' = "check109" /\ i' = i
  /\ UNCHANGED <<fileVars, HASH_FILE, exitCode, sigVars, bunVars, watchVars,
                 instVars>>

\* mutant: startup goes on without the check of lines 109-113
Check109_Proceeds ==
  /\ mainPc = "check109"
  /\ mainPc' = "install116"
  /\ UNCHANGED <<fileVars, HASH_FILE, i, exitCode, sigVars, bunVars, watchVars,
                 instVars>>

\* lines 109-113
Check109 ==
  /\ mainPc = "check109"
  /\ IF files["package.json"] = Absent
       THEN mainPc' = "exited" /\ exitCode' = 1
       ELSE mainPc' = "install116" /\ exitCode' = exitCode
  /\ UNCHANGED <<fileVars, HASH_FILE, i, sigVars, bunVars, watchVars, instVars>>

\* mutant: the watcher is started before the startup install and the write
\* of line 121
StartupInstall_AfterWatcher ==
  /\ mainPc = "install116"
  /\ mainPc' = "installing116"
  /\ startupInstall' = "running"
  /\ watcherPc' = "w_init147"
  /\ UNCHANGED <<fileVars, HASH_FILE, i, exitCode, sigVars, bunVars, current,
                 tickInstall>>

\* line 116: bun install is started
StartupInstall ==
  /\ mainPc = "install116"
  /\ mainPc' = "installing116"
  /\ startupInstall' = "running"
  /\ UNCHANGED <<fileVars, HASH_FILE, i, exitCode, sigVars, bunVars, watchVars,
                 tickInstall>>

\* what a successful bun install may leave in the lock file
InstallerLock(fs) == {fs["bun.lockb"]} \cup Contents

\* mutant: line 116 without `|| { ... }`: a failed install ends the shell
StartupInstallReturns_Fatal ==
  /\ mainPc = "installing116"
  /\ \/ /\ startupInstall' = "ok"
        /\ \E l \in InstallerLock(files) : files' = [files EXCEPT !["bun.lockb"] = l]
        /\ mainPc' = "hash121"
        /\ exitCode' = exitCode
     \/ /\ startupInstall' = "failed"
        /\ files' = files
        /\ mainPc' = "exited"
        /\ exitCode' = 1
  /\ UNCHANGED <<HASH_FILE, fileChanges, changed, i, sigVars, bunVars,
                 watchVars, tickInstall>>

\* line 116: bun install returns
StartupInstallReturns ==
  /\ mainPc = "installing116"
  /\ \/ /\ startupInstall' = "ok"
        /\ \E l \in InstallerLock(files) : files' = [files EXCEPT !["bun.lockb"] = l]
        /\ mainPc' = "hash121"
     \/ /\ startupInstall' = "failed"
        /\ files' = files
        /\ mainPc' = "touch119"
  /\ UNCHANGED <<HASH_FILE, fileChanges, changed, i, exitCode, sigVars, bunVars,
                 watchVars, tickInstall>>

\* line 119: touch "$HASH_FILE"
Touch119 ==
  /\ mainPc = "touch119"
  /\ HASH_FILE' = IF HASH_FILE = NoFile THEN EmptyStr ELSE HASH_FILE
  /\ mainPc' = "hash121"
  /\ UNCHANGED <<fileVars, i, exitCode, sigVars, bunVars, watchVars, instVars>>

\* mutant: line 121 records the digest of the manifest alone
StartupStore_ManifestOnly(fs) ==
  sha256sum(IF fs["package.json"] # Absent THEN <<Line("package.json", fs)>> ELSE << >>)

\* line 121: hash_files | sha256sum | awk ... > "$HASH_FILE" || echo "0" > "$HASH_FILE"
StartupStore(fs) ==
  IF HashPipeline(fs).rc = 0 THEN HashPipeline(fs).out ELSE Zero

Hash121 ==
  /\ mainPc = "hash121"
  /\ HASH_FILE' = StartupStore(files)
  /\ mainPc' = "watch183"
  /\ UNCHANGED <<fileVars, i, exitCode, sigVars, bunVars, watchVars, instVars>>

\* lines 183-184: watch_dependencies &
Watch183 ==
  /\ mainPc = "watch183"
  /\ watcherPc' = "w_init147"
  /\ startupInstall' = "none"
  /\ mainPc' = "trap193"
  /\ UNCHANGED <<fileVars, HASH_FILE, i, exitCode, sigVars, bunVars, current,
                 tickInstall>>

\* line 193: trap cleanup EXIT INT TERM
Trap193 ==
  /\ mainPc = "trap193"
  /\ mainPc' = "spawn198"
  /\ UNCHANGED <<fileVars, HASH_FILE, i, exitCode, sigVars, bunVars, watchVars,
                 instVars>>

\* ------------------------------------------------------ cleanup and trap
\* line 189: [ -n "${WATCHER_PID:-}" ] && kill "$WATCHER_PID" 2>/dev/null || true
\* (the watcher subshell has the default disposition and ends at once)
cleanupWatcher(w) == IF w \in WatcherLive THEN "w_killed" ELSE w

\* line 190: [ -n "${BUN_PID:-}" ] && kill "$BUN_PID" 2>/dev/null || true
cleanupBun(pid, s) == IF pid = "cur" THEN Term(s) ELSE s

\* mutant: line 189 without `|| true`: kill of a watcher that is gone fails
cleanupStatus_NoOrTrue(w, pid, s) == IF w \in WatcherLive THEN 0 ELSE 1

\* lines 187-191: status of cleanup.  Both kill lists end in `|| true`, so
\* neither a dead watcher, nor a dead server, nor an unset BUN_PID makes a
\* command of the handler fail.
cleanupStatus(w, pid, s) == 0

\* mutant: line 203 without `|| true`
WaitStatus_NoOrTrue(st) == st

\* line 203: wait "$BUN_PID" 2>/dev/null || true        (status of the list)
WaitStatus(st) == 0

\* position after line 203 under set -e
AfterWait(st) == IF WaitStatus(st) = 0 THEN "sleep206" ELSE "exited"

\* position after the handler of a trapped signal has run: cleanup does not
\* exit; a wait builtin that was in progress returns with 128 + signal
AfterTrap(pc) == IF pc = "wait203" THEN AfterWait(128 + 15) ELSE pc

\* The handler of a trapped INT/TERM runs cleanup (lines 187-191).  A
\* command that failed inside the handler would end the shell (set -e).
RunTrap ==
  /\ sigPending
  /\ TrapInstalled
  /\ sigPending' = FALSE
  /\ watcherPc' = cleanupWatcher(watcherPc)
  /\ cur' = cleanupBun(BUN_PID, cur)
  /\ mainPc' = IF cleanupStatus(watcherPc, BUN_PID, cur) = 0
                 THEN AfterTrap(mainPc) ELSE "exited"
  /\ exitCode' = IF mainPc' = "exited" THEN 128 + 15 ELSE exitCode
  /\ UNCHANGED <<fileVars, HASH_FILE, i, sigCount, BUN_PID, bunStatus,
                 lingering, current, instVars>>

\* --------------------------------------------------------------- run-loop
\* line 198: bun --hot index.ts &
Spawn198 ==
  /\ mainPc = "spawn198"
  /\ ~sigPending
  /\ lingering' = lingering + (IF Alive(cur) THEN 1 ELSE 0)
  /\ cur' = "running"
  /\ bunStatus' = -1
  /\ BUN_PID' = IF BUN_PID = "unset" THEN "unset" ELSE "old"
  /\ mainPc' = "assign199"
  /\ UNCHANGED <<fileVars, HASH_FILE, i, exitCode, sigVars, watchVars, instVars>>

\* line 199: BUN_PID=$!
Assign199 ==
  /\ mainPc = "assign199"
  /\ ~sigPending
  /\ BUN_PID' = "cur"
  /\ mainPc' = "wait203"
  /\ UNCHANGED <<fileVars, HASH_FILE, i, exitCode, sigVars, cur, bunStatus,
                 lingering, watchVars, instVars>>

\* mutant: line 203 as a plain `wait`, which waits for the watcher as well
Wait203_AllChildren ==
  /\ mainPc = "wait203"
  /\ ~sigPending
  /\ cur = "exited"
  /\ watcherPc \notin WatcherLive
  /\ mainPc' = AfterWait(bunStatus)
  /\ exitCode' = IF mainPc' = "exited" THEN bunStatus ELSE exitCode
  /\ watcherPc' = IF mainPc' = "exited" THEN cleanupWatcher(watcherPc) ELSE watcherPc
  /\ UNCHANGED <<fileVars, HASH_FILE, i, sigVars, bunVars, current, instVars>>

\* line 203: the wait returns because the server has exited.  An exit of
\* the shell under set -e would run the EXIT trap (cleanup).
Wait203 ==
  /\ mainPc = "wait203"
  /\ ~sigPending
  /\ cur = "exited"
  /\ mainPc' = AfterWait(bunStatus)
  /\ exitCode' = IF mainPc' = "exited" THEN bunStatus ELSE exitCode
  /\ watcherPc' = IF mainPc' = "exited" THEN cleanupWatcher(watcherPc) ELSE watcherPc
  /\ UNCHANGED <<fileVars, HASH_FILE, i, sigVars, bunVars, current, instVars>>

\* line 206: sleep 2
Sleep206 ==
  /\ mainPc = "sleep206"
  /\ ~sigPending
  /\ mainPc' = "spawn198"
  /\ UNCHANGED <<fileVars, HASH_FILE, i, exitCode, sigVars, bunVars, watchVars,
                 instVars>>

\* ---------------------------------------------------------------- watcher
\* Position after `var=$(hash_files | sha256sum | awk '{print $1}')`: the
\* status of the assignment is the status of the pipeline, and a non-zero
\* status ends the watcher subshell (set -e).
AfterHash(rc, next) == IF rc = 0 THEN next ELSE "w_exited"

\* line 147: initial_hash=$(...)
W_Init147 ==
  /\ watcherPc = "w_init147"
  /\ watcherPc' = AfterHash(HashPipeline(files).rc, "w_sleep151")
  /\ UNCHANGED <<fileVars, HASH_FILE, mainVars, sigVars, bunVars, current,
                 instVars>>

\* mutant: the server is killed before the install of the tick
Decide_KillFirst(c, p) ==
  IF c # p
    THEN IF NonEmpty(c) THEN "w_kill173" ELSE "w_sleep151"
    ELSE "w_sleep151"

\* lines 163-178: what the tick does with $current and $previous
Decide(c, p) ==
  IF c # p
    THEN IF NonEmpty(c) THEN "w_install169" ELSE "w_sleep151"
    ELSE "w_sleep151"

\* lines 151-164: sleep 10, current=$(...), previous=$(cat ...) and the
\* comparison.  Nothing but the watcher writes .deps_hash once it runs.
W_Check ==
  /\ watcherPc = "w_sleep151"
  /\ current' = HashPipeline(files).out
  /\ LET previous == ReadStore(HASH_FILE)
     IN  watcherPc' = AfterHash(HashPipeline(files).rc, Decide(current', previous))
  /\ UNCHANGED <<fileVars, HASH_FILE, mainVars, sigVars, bunVars, instVars>>

\* mutant: line 169 as `bun install &`, the tick does not wait for it
W_Install169_Background ==
  /\ watcherPc = "w_install169"
  /\ watcherPc' = "w_sleep151"
  /\ tickInstall' = "running"
  /\ UNCHANGED <<fileVars, HASH_FILE, mainVars, sigVars, bunVars, current,
                 startupInstall>>

\* line 169: bun install is started
W_Install169 ==
  /\ watcherPc = "w_install169"
  /\ watcherPc' = "w_installing"
  /\ tickInstall' = "running"
  /\ UNCHANGED <<fileVars, HASH_FILE, mainVars, sigVars, bunVars, current,
                 startupInstall>>

\* position after line 169 under set -e
AfterInstall(ok) == IF ok THEN "w_write170" ELSE "w_exited"

\* line 169: bun install returns
W_InstallReturns ==
  /\ watcherPc = "w_installing"
  /\ \/ /\ tickInstall' = "ok"
        /\ \E l \in InstallerLock(files) : files' = [files EXCEPT !["bun.lockb"] = l]
        /\ watcherPc' = AfterInstall(TRUE)
     \/ /\ tickInstall' = "failed"
        /\ files' = files
        /\ watcherPc' = AfterInstall(FALSE)
  /\ changed' = (changed \/ files' # files)
  /\ UNCHANGED <<HASH_FILE, fileChanges, mainVars, sigVars, bunVars, current,
                 startupInstall>>

\* line 170: echo "$current" > "$HASH_FILE_PATH"
W_Write170 ==
  /\ watcherPc = "w_write170"
  /\ HASH_FILE' = current
  /\ watcherPc' = "w_kill173"
  /\ UNCHANGED <<fileVars, mainVars, sigVars, bunVars, current, instVars>>

\* mutant: line 173 without `|| true`: a pkill that matches no process
\* returns 1 and ends the watcher
W_Kill173_NoOrTrue ==
  /\ watcherPc = "w_kill173"
  /\ cur' = Term(cur)
  /\ tickInstall' = "none"
  /\ watcherPc' = IF AliveServers > 0 THEN "w_sleep151" ELSE "w_exited"
  /\ UNCHANGED <<fileVars, HASH_FILE, mainVars, sigVars, BUN_PID, bunStatus,
                 lingering, current, startupInstall>>

\* lines 173-174: pkill -f "bun.*index.ts" 2>/dev/null || true; sleep 1.
\* The tick is over.
W_Kill173 ==
  /\ watcherPc = "w_kill173"
  /\ cur' = Term(cur)
  /\ tickInstall' = "none"
  /\ watcherPc' = "w_sleep151"
  /\ UNCHANGED <<fileVars, HASH_FILE, mainVars, sigVars, BUN_PID, bunStatus,
                 lingering, current, startupInstall>>

\* ---------------------------------------------------------- specification
Startup == Poll \/ Check109 \/ StartupInstall \/ StartupInstallReturns
           \/ Touch119 \/ Hash121 \/ Watch183 \/ Trap193
RunLoop == Spawn198 \/ Assign199 \/ Wait203 \/ Sleep206
watch_dependencies ==
  W_Init147 \/ W_Check \/ W_Install169 \/ W_InstallReturns \/ W_Write170
  \/ W_Kill173
Server == ServerExits \/ ServerTerminates \/ LingeringTerminates
Environment == ChangeFile \/ DeliverSignal

Next == Startup \/ RunLoop \/ RunTrap \/ watch_dependencies \/ Server
        \/ Environment

Spec == Init /\ [][Next]_vars

\* The shell and the watcher keep executing their next command, an install
\* that was started returns, and a process that was sent SIGTERM exits.
\* Nothing obliges the environment to change files, crash the server or
\* send signals.
Fairness ==
  /\ WF_vars(Startup)
  /\ WF_vars(RunLoop)
  /\ WF_vars(RunTrap)
  /\ WF_vars(watch_dependencies)
  /\ WF_vars(ServerTerminates)
  /\ WF_vars(LingeringTerminates)

FairSpec == Init /\ [][Next]_vars /\ Fairness

\* The same without any obligation on the watcher: its sleep and its install
\* may take arbitrarily long, or for ever.
RunLoopFairness ==
  /\ WF_vars(Startup)
  /\ WF_vars(RunLoop)
  /\ WF_vars(RunTrap)
  /\ WF_vars(ServerTerminates)
  /\ WF_vars(LingeringTerminates)

RunLoopFairSpec == Init /\ [][Next]_vars /\ RunLoopFairness

TypeOK ==
  /\ files \in FileStates
  /\ fileChanges \in 0..MaxFileChanges
  /\ changed \in BOOLEAN
  /\ mainPc \in StartupPcs \cup LoopPcs \cup {"exited"}
  /\ i \in 1..MaxPolls
  /\ exitCode \in {-1, 1, 128 + 15}
  /\ sigPending \in BOOLEAN
  /\ sigCount \in 0..MaxSignals
  /\ BUN_PID \in {"unset", "old", "cur"}
  /\ cur \in {"none", "running", "terminating", "exited"}
  /\ bunStatus \in {-1, 128 + 15} \cup ExitStatuses
  /\ lingering \in 0..MaxSignals
  /\ watcherPc \in WatcherLive \cup WatcherDown
  /\ startupInstall \in {"none", "running", "ok", "failed"}
  /\ tickInstall \in {"none", "running", "ok", "failed"}
  /\ (mainPc = "spawn198" /\ ~sigPending => cur # "running")

\* ------------------------------------------------------------------ claims
AllAbsent == \A f \in FileNames : files[f] = Absent
InstallPart == {"w_install169", "w_installing", "w_write170", "w_kill173"}

\* a step of the watcher that sends SIGTERM to the running server
WatcherKills ==
  /\ watcherPc \in WatcherLive
  /\ watcherPc' \in WatcherLive
  /\ cur = "running"
  /\ cur' = "terminating"

\* a step of the watcher that changes .deps_hash
WatcherWrites ==
  /\ watcherPc \in WatcherLive
  /\ HASH_FILE' # HASH_FILE

\* the step of a tick that computes and compares the fingerprint
TickStep ==
  /\ watcherPc = "w_sleep151"
  /\ watcherPc' # "w_killed"
  /\ <<watcherPc, current>>' # <<watcherPc, current>>

\* C1: crash recovery.  As long as no termination signal has been delivered
\* to the supervisor, a server that has terminated (with any exit status, or
\* killed by the watcher) is eventually followed by a newly spawned server.
C1_CrashRecovery ==
  (cur = "exited" /\ sigCount = 0) ~> (cur = "running" \/ sigCount > 0)

\* a server crashed with a non-zero status, no signal was delivered, and the
\* run-loop has left the wait and is in its restart delay
C1_Witness ==
  /\ mainPc = "sleep206"
  /\ cur = "exited"
  /\ bunStatus = 1
  /\ sigCount = 0

\* C2: in every reachable state at most one server process spawned by the
\* supervisor is alive.
C2_AtMostOneServer == AliveServers <= 1

\* C3: once a termination signal has been delivered to the supervisor, the
\* run-loop spawns no new server process.
C3_NoSpawnAfterSignal ==
  [][sigCount > 0 => ~(mainPc = "spawn198" /\ mainPc' = "assign199")]_vars

\* C4: after a termination signal has reached the trap, the supervisor
\* eventually exits with status 0, and then neither the watcher nor any
\* server is alive.
C4_ExitsAfterSignal ==
  sigPending ~> (/\ mainPc = "exited"
                 /\ exitCode = 0
                 /\ watcherPc \notin WatcherLive
                 /\ AliveServers = 0)

\* C5: when the install of a drift tick has failed, .deps_hash still differs
\* from the fingerprint of that tick and the watcher goes on to its next
\* tick, where the install is retried.
C5_RetryAfterFailedInstall ==
  tickInstall = "failed" => (HASH_FILE # current /\ watcherPc = "w_sleep151")

\* C6: .deps_hash holds a fingerprint only if the install of its writer
\* succeeded: the startup sequence records no fingerprint after a failed
\* install, and the watcher writes only after a successful one.
C6_StoreOnlyAfterSuccess ==
  /\ (mainPc = "watch183" /\ startupInstall = "failed" => ~IsDigest(HASH_FILE))
  /\ (watcherPc = "w_kill173" => tickInstall = "ok")

\* C7: on a drift tick the install has returned before .deps_hash is
\* written, .deps_hash is written with the fingerprint computed on that tick,
\* and the watcher sends SIGTERM to the server only after both.
C7_InstallWriteKillOrder ==
  [][/\ (WatcherWrites => tickInstall = "ok" /\ HASH_FILE' = current)
     /\ (WatcherKills => tickInstall = "ok" /\ HASH_FILE = current)]_vars

\* a drift tick has installed, written and killed the running server
C7_Witness ==
  /\ watcherPc = "w_sleep151"
  /\ tickInstall = "none"
  /\ cur = "terminating"
  /\ sigCount = 0
  /\ IsDigest(current)
  /\ HASH_FILE = current

\* C8: a change of the descriptor files after startup that leaves a file
\* present is eventually followed by .deps_hash holding the fingerprint of
\* the files, unless a termination signal is delivered.  (Stated with two
\* more ways out than the claim has: an install that fails, and all files
\* disappearing.)
C8_DriftLeadsToInstall ==
  (/\ changed
   /\ sigCount = 0
   /\ ~AllAbsent
   /\ HASH_FILE # HashPipeline(files).out)
    ~> (\/ HASH_FILE = HashPipeline(files).out
        \/ sigCount > 0
        \/ tickInstall = "failed"
        \/ AllAbsent)

\* C9: as long as no descriptor file has changed since line 121 recorded the
\* fingerprint, the watcher is never in the install-write-kill part of a tick
\* and no install of a tick has been started.
C9_Idempotence ==
  ~changed => (watcherPc \notin InstallPart /\ tickInstall = "none")

\* a tick has compared the fingerprint of unchanged files with .deps_hash
C9_Witness ==
  /\ ~changed
  /\ watcherPc = "w_sleep151"
  /\ IsDigest(current)
  /\ current = HASH_FILE

\* C10: on a tick at which all descriptor files are absent the fingerprint
\* is the empty string, nothing is installed, written or killed, and the
\* watcher goes on to its next tick.
C10_EmptyFingerprintSkipped ==
  [][TickStep /\ AllAbsent =>
       /\ current' = EmptyStr
       /\ watcherPc' = "w_sleep151"
       /\ HASH_FILE' = HASH_FILE
       /\ cur' = cur]_vars

\* C11: once started, the watcher stays in its loop until cleanup kills it,
\* whatever fails inside a tick (the install, the fingerprint of a missing
\* file, the read of .deps_hash, a pkill that matches nothing); and the
\* run-loop, once entered, is never left.
C11_LoopsNeverEnd ==
  [][/\ (watcherPc \in WatcherLive =>
           watcherPc' \in WatcherLive \/ watcherPc' = "w_killed")
     /\ (mainPc \in LoopPcs => mainPc' \in LoopPcs)]_vars

\* C12: the startup wait polls for package.json at most MaxPolls times.  It
\* is left early only when the manifest is there; when the manifest is absent
\* at the check that follows, the supervisor exits with a non-zero status and
\* has then neither installed, nor written .deps_hash, nor started the
\* watcher, nor spawned a server; when the manifest is present at that check,
\* startup goes on to the install (unless a signal ends the shell); and once
\* the run-loop has been entered the supervisor does not exit.
C12_BoundedStartupWait ==
  /\ [](mainPc = "exited" /\ exitCode = 1 =>
          /\ startupInstall = "none"
          /\ tickInstall = "none"
          /\ HASH_FILE = NoFile
          /\ watcherPc = "w_none"
          /\ AliveServers = 0 /\ cur = "none")
  /\ [][/\ (mainPc = "poll100" /\ mainPc' = "check109" =>
              files["package.json"] # Absent \/ i = MaxPolls)
        /\ (mainPc = "poll100" /\ mainPc' = "poll100" => i' \in {i, i + 1})
        /\ (mainPc = "check109" /\ mainPc' # mainPc =>
              IF files["package.json"] = Absent
                THEN mainPc' = "exited" /\ exitCode' > 0
                ELSE mainPc' = "install116" \/ exitCode' = 128 + 15)
        /\ (mainPc \in LoopPcs => mainPc' \in LoopPcs /\ exitCode' = -1)]_vars

\* the manifest never appeared: all polls were made and the supervisor has
\* exited with status 1
C12_Witness ==
  /\ mainPc = "exited"
  /\ exitCode = 1
  /\ i = MaxPolls
  /\ fileChanges = 0

\* C13: a startup install that failed does not end the supervisor: unless a
\* signal is delivered, .deps_hash is then written, the watcher is started
\* and the run-loop spawns a server.
C13_StartupInstallNonFatal ==
  /\ [](startupInstall = "failed" /\ mainPc = "exited" => sigCount > 0)
  /\ (startupInstall = "failed")
       ~> (\/ /\ mainPc \in LoopPcs
              /\ cur # "none"
              /\ HASH_FILE # NoFile
              /\ watcherPc # "w_none"
           \/ sigCount > 0)

\* the startup install has failed and line 121 has written .deps_hash
C13_Witness ==
  /\ startupInstall = "failed"
  /\ mainPc = "watch183"
  /\ HASH_FILE # NoFile
  /\ sigCount = 0

\* C14: when the startup install has succeeded, the value that line 121
\* writes to .deps_hash is the fingerprint that the watcher's pipeline
\* computes over the same files, and that computation does not fail,
\* whichever of the files are missing.
C14_StartupStoreIsFingerprint ==
  [][mainPc = "hash121" /\ mainPc' = "watch183" /\ startupInstall = "ok" =>
       /\ HashPipeline(files).rc = 0
       /\ HASH_FILE' = HashPipeline(files).out]_vars

\* positions of the supervisor shell whose command writes .deps_hash
StoreWritePcs == {"touch119", "hash121"}

\* the step of a tick that reads .deps_hash (line 155)
ReadsStore == watcherPc = "w_sleep151" /\ watcherPc' \notin {"w_sleep151", "w_killed"}

\* C15: the watcher never reads .deps_hash while a write of it is in
\* progress.  While the startup sequence is at a command that writes the
\* store the watcher does not exist yet; afterwards the store is changed only
\* by the watcher's own line 170, which is not the step that reads; and what a
\* read returns is the empty string or a complete value (0 or a digest).
C15_NoTornRead ==
  /\ [](mainPc \in StoreWritePcs => watcherPc = "w_none")
  /\ [][HASH_FILE' # HASH_FILE =>
          \/ mainPc \in StoreWritePcs /\ watcherPc = "w_none"
          \/ watcherPc = "w_write170" /\ mainPc \notin StoreWritePcs]_vars
  /\ [][ReadsStore =>
          /\ HASH_FILE' = HASH_FILE
          /\ mainPc \notin StoreWritePcs
          /\ \/ ReadStore(HASH_FILE) = EmptyStr
             \/ ReadStore(HASH_FILE) = Zero
             \/ IsDigest(ReadStore(HASH_FILE))]_vars

\* a tick has read the digest that startup wrote and found that it differs
\* from the fingerprint of the files
C15_Witness ==
  /\ watcherPc = "w_install169"
  /\ IsDigest(HASH_FILE)
  /\ HASH_FILE # current
  /\ tickInstall = "none"

\* positions of the watcher before the install of a tick
BeforeInstall == {"w_init147", "w_sleep151", "w_install169"}

\* C16: ticks are sequential.  While the startup install runs there is no
\* watcher and no install of a tick; a tick begins only when the install,
\* the write and the kill of the previous tick are over; an install of a
\* tick is started only from line 169, which is reached only from the
\* comparison of a tick; so no two installs are ever in progress at once.
C16_SequentialTicks ==
  /\ [](startupInstall = "running" => watcherPc = "w_none" /\ tickInstall = "none")
  /\ [](watcherPc \in BeforeInstall => tickInstall = "none")
  /\ [][/\ (tickInstall' = "running" /\ tickInstall # "running" =>
              tickInstall = "none" /\ watcherPc = "w_install169")
        /\ (watcherPc' = "w_install169" /\ watcherPc # "w_install169" =>
              watcherPc = "w_sleep151")
        /\ (watcherPc' = "w_sleep151" /\ watcherPc \in InstallPart =>
              watcherPc = "w_kill173" /\ tickInstall = "ok")]_vars

\* a tick has installed, written and killed the server (no signal was
\* delivered, so the SIGTERM is the watcher's), and the files differ from
\* what was written, so that the next tick installs again
C16_Witness ==
  /\ watcherPc = "w_sleep151"
  /\ tickInstall = "none"
  /\ IsDigest(current)
  /\ HASH_FILE = current
  /\ cur = "terminating"
  /\ sigCount = 0
  /\ HashPipeline(files).rc = 0
  /\ HashPipeline(files).out # HASH_FILE

\* C17: the watcher does not hold up the run-loop.  A server that has exited
\* while the watcher sleeps or waits for its install is followed by a newly
\* spawned server (unless a signal is delivered), even if the watcher never
\* takes another step.
C17_WatcherNeverBlocksRunLoop ==
  (/\ cur = "exited"
   /\ watcherPc \in {"w_sleep151", "w_installing"}
   /\ sigCount = 0)
    ~> (cur = "running" \/ sigCount > 0)

\* the server has exited and the run-loop is in its restart delay while the
\* install of a tick is in progress
C17_Witness ==
  /\ mainPc = "sleep206"
  /\ cur = "exited"
  /\ watcherPc = "w_installing"
  /\ tickInstall = "running"
  /\ sigCount = 0

\* the step of a tick that issues the termination request of line 173
KillRequest ==
  /\ watcherPc = "w_kill173"
  /\ watcherPc' \notin {"w_kill173", "w_killed"}

\* C18: a termination request that the watcher issues while no server is
\* alive changes nothing: the watcher goes on to its next tick, .deps_hash
\* keeps the fingerprint written on this tick, no server and no position of
\* the run-loop is affected; and when the run-loop is in its restart delay at
\* that moment, it still spawns the next server (unless a signal arrives).
C18_KillRequestBestEffort ==
  /\ [][KillRequest /\ AliveServers = 0 =>
          /\ watcherPc' = "w_sleep151"
          /\ HASH_FILE' = current
          /\ HASH_FILE' = HASH_FILE
          /\ <<mainPc, exitCode, bunVars>>' = <<mainPc, exitCode, bunVars>>]_vars
  /\ (/\ watcherPc = "w_kill173"
      /\ mainPc = "sleep206"
      /\ AliveServers = 0
      /\ sigCount = 0)
       ~> (cur = "running" \/ sigCount > 0)

\* a drift tick has installed and written and is about to issue its
\* termination request while the server has exited and the run-loop is in
\* its restart delay
C18_Witness ==
  /\ watcherPc = "w_kill173"
  /\ tickInstall = "ok"
  /\ HASH_FILE = current
  /\ mainPc = "sleep206"
  /\ cur = "exited"
  /\ lingering = 0
  /\ sigCount = 0

\* the install of a tick returns successfully
TickInstallOk == watcherPc = "w_installing" /\ tickInstall' = "ok"

\* C19: the fingerprint that a drift tick computed before its install, which
\* is the value line 170 then writes to .deps_hash, is the fingerprint of the
\* files as the successful install leaves them, provided nobody else changed
\* the files since the tick fingerprinted them; so the written value makes
\* the following tick find no difference.
C19_StoreMatchesFilesAfterInstall ==
  [][/\ TickInstallOk
     /\ files["package.json"] # Absent
     /\ HashPipeline(files).out = current
     => HashPipeline(files').out = current]_vars

\* a step in which the handler of a trapped signal runs
HandlerRuns == sigPending /\ ~sigPending'

====
